---- MODULE Spec2Model ----
(***************************************************************************)
(* A model of core/dbt/contracts/graph/parsed.py: the parsed-node          *)
(* contracts of dbt.  Four parts of the file are modelled, each with its   *)
(* own specification over its own variables:                               *)
(*                                                                         *)
(*   SpecPatch     ParsedNodeMixins.patch applied to a parsed node         *)
(*   SpecConfig    NodeConfig.from_dict and to_dict on raw config dicts    *)
(*   SpecReplace   NodeConfig.replace and to_dict on constructed records   *)
(*   SpecSnapshot  _create_if_else_chain and the snapshot config schema    *)
(*                                                                         *)
(* JSON scalars are modelled as string tokens.  A token of NonStr stands   *)
(* for a value that is not a JSON string (null, a boolean, a number).      *)
(* Dicts are functions from key strings to values, lists are sequences.    *)
(* A value of a Union of a list type and a string type is a record with    *)
(* the one field "list" or the one field "str".                            *)
(***************************************************************************)
EXTENDS Integers, Sequences, FiniteSets, TLC

VARIABLES
    \* ---- SpecPatch
    node,         \* the parsed node patch() mutates in place
    STRICT_MODE,  \* dbt.flags.STRICT_MODE
    raised,       \* TRUE when the last patch() call raised a validation error
    applied,      \* <<>> or <<p>>: the patch record of the last patch() call
    previous,     \* <<>> or <<p>>: the patch record of the call before that
    original,     \* the node as the parser constructed it
    \* ---- SpecConfig
    raw,          \* the raw config dict handed to NodeConfig.from_dict
    parsed,       \* <<>> or <<r>>: the NodeConfig from_dict returned
    serialized,   \* <<>> or <<d>>: the dict parsed.to_dict() returned
    reparsed,     \* <<>> or <<r>>: NodeConfig.from_dict(serialized)
    stage,        \* "raw", "parsed", "invalid", "serialized", "reparsed"
    \* ---- SpecReplace
    record,       \* the NodeConfig at hand
    receiver,     \* <<>> or <<r>>: the record the last replace() was called on
    overrides,    \* the keyword arguments of the last replace()
    failed,       \* TRUE when the last replace() raised a validation error
    dumped,       \* <<>> or <<d>>: the dict record.to_dict() returned
    replaces,     \* the number of replace() calls so far
    \* ---- SpecSnapshot
    criteria,     \* the (tag, variant) list the chain was built from
    chain,        \* <<>> or <<s>>: the schema _create_if_else_chain returned
    instance,     \* the snapshot config dict validated against the chain
    selected,     \* the variants whose schema the chain applied to instance
    accepted,     \* whether instance validates against the chain
    phase         \* "start", "schema", "validated"

patchvars == <<node, STRICT_MODE, raised, applied, previous, original>>

configvars == <<raw, parsed, serialized, reparsed, stage>>

replacevars == <<record, receiver, overrides, failed, dumped, replaces>>

snapshotvars == <<criteria, chain, instance, selected, accepted, phase>>

vars == <<patchvars, configvars, replacevars, snapshotvars>>

----------------------------------------------------------------------------
(* Scalars *)

None == "None"
True == "True"
False == "False"
IntVal == "42"
NonStr == {None, True, False, IntVal}

IsBool(v) == v \in {True, False}

IsStr(v) == v \notin NonStr

EmptyDict == [k \in {} |-> None]

\* List[str]
IsStrList(l) == \A i \in 1..Len(l) : IsStr(l[i])

----------------------------------------------------------------------------
(* The dataclasses a parsed node is made of *)

\* NodeConfig(): every declared field at its default
NodeConfig ==
    [enabled |-> True, materialized |-> "view", persist_docs |-> EmptyDict,
     post_hook |-> <<>>, pre_hook |-> <<>>, vars |-> EmptyDict,
     quoting |-> EmptyDict, column_types |-> EmptyDict,
     tags |-> [list |-> <<>>], _extra |-> EmptyDict]

ColumnInfo(name, description) == [name |-> name, description |-> description]

Docref(documentation_name, documentation_package, column_name) ==
    [documentation_name |-> documentation_name,
     documentation_package |-> documentation_package,
     column_name |-> column_name]

DependsOn(nodes, macros) == [nodes |-> nodes, macros |-> macros]

IsColumnInfo(c) == IsStr(c.name) /\ IsStr(c.description)

IsDocref(d) ==
    /\ IsStr(d.documentation_name)
    /\ IsStr(d.documentation_package)
    /\ (d.column_name = None \/ IsStr(d.column_name))

\* ParsedNodePatch: the five fields of an update record
ParsedNodePatch(name, description, original_file_path, columns, docrefs) ==
    [name |-> name, description |-> description,
     original_file_path |-> original_file_path,
     columns |-> columns, docrefs |-> docrefs]

\* ParsedNode: the fields of ParsedNodeMandatory and ParsedNodeDefaults, the
\* defaulted ones at their defaults
ParsedNode(name, resource_type, unique_id, fqn, database, schema, alias, config) ==
    [name |-> name, resource_type |-> resource_type, unique_id |-> unique_id,
     fqn |-> fqn, database |-> database, schema |-> schema, alias |-> alias,
     config |-> config, tags |-> <<>>, refs |-> <<>>, sources |-> <<>>,
     depends_on |-> DependsOn(<<>>, <<>>), docrefs |-> <<>>,
     description |-> "", columns |-> EmptyDict,
     patch_path |-> None, build_path |-> None]

----------------------------------------------------------------------------
(* ParsedNodeMixins.patch *)

\* A faulty variant of patch that also takes the patch record's name
patch_steps_on_name(self, p) ==
    [self EXCEPT !.name = p.name,
                 !.patch_path = p.original_file_path,
                 !.description = p.description,
                 !.columns = p.columns,
                 !.docrefs = p.docrefs]

\* A faulty variant of patch that patches a node once and ignores later patches
patch_once(self, p) ==
    IF self.patch_path # None THEN self
    ELSE [self EXCEPT !.patch_path = p.original_file_path,
                      !.description = p.description,
                      !.columns = p.columns,
                      !.docrefs = p.docrefs]

\* The four assignments of patch
patch(self, p) ==
    [self EXCEPT !.patch_path = p.original_file_path,
                 !.description = p.description,
                 !.columns = p.columns,
                 !.docrefs = p.docrefs]

\* self.to_dict(validate=True) of a node: the serialized node validates
\* against the schema of the dataclass.  to_dict omits None by default, and
\* description, columns, docrefs and patch_path all have defaults, so a None
\* there is left out and passes.
NodeValidates(self) ==
    /\ IsStr(self.name) /\ IsStr(self.unique_id) /\ IsStr(self.alias)
    /\ IsStr(self.database) /\ IsStr(self.schema)
    /\ IsStrList(self.fqn)
    /\ (self.description = None \/ IsStr(self.description))
    /\ (self.patch_path = None \/ IsStr(self.patch_path))
    /\ (self.build_path = None \/ IsStr(self.build_path))
    /\ \A k \in DOMAIN self.columns : IsColumnInfo(self.columns[k])
    /\ \A i \in 1..Len(self.docrefs) : IsDocref(self.docrefs[i])

\* The values a patch record is built from
PatchNames == {"m1", "m2"}
PatchDescriptions == {"", "a model", IntVal}
PatchPaths == {"models/schema.yml", "models/docs.yml"}
PatchColumns == {EmptyDict, "id" :> ColumnInfo("id", "the key")}
PatchDocrefs == {<<>>, <<Docref("doc1", "pkg", None)>>}

Patches ==
    {ParsedNodePatch(n, d, f, c, r) :
        n \in PatchNames, d \in PatchDescriptions, f \in PatchPaths,
        c \in PatchColumns, r \in PatchDocrefs}

\* The nodes the parser hands over: valid, not yet patched
ParsedNodes ==
    {ParsedNode(n, t, t \o ".pkg." \o n, <<"pkg", n>>, "db", "s", n, c) :
        n \in {"m1", "m2"}, t \in {"model", "seed"},
        c \in {NodeConfig, [NodeConfig EXCEPT !.materialized = "table"]}}

\* The variables of the other specifications, at rest
PatchIdle ==
    /\ node = EmptyDict /\ STRICT_MODE = FALSE /\ raised = FALSE
    /\ applied = <<>> /\ previous = <<>> /\ original = EmptyDict

ConfigIdle ==
    /\ raw = EmptyDict /\ parsed = <<>> /\ serialized = <<>> /\ reparsed = <<>>
    /\ stage = "idle"

ReplaceIdle ==
    /\ record = EmptyDict /\ receiver = <<>> /\ overrides = EmptyDict
    /\ failed = FALSE /\ dumped = <<>> /\ replaces = 0

SnapshotIdle ==
    /\ criteria = <<>> /\ chain = <<>> /\ instance = EmptyDict
    /\ selected = {} /\ accepted = FALSE /\ phase = "idle"

InitPatch ==
    /\ ConfigIdle /\ ReplaceIdle /\ SnapshotIdle
    /\ node \in ParsedNodes
    /\ STRICT_MODE \in BOOLEAN
    /\ raised = FALSE
    /\ applied = <<>>
    /\ previous = <<>>
    /\ original = node

\* node.patch(p): the assignments happen first, then the strict-mode
\* validation, which raises and undoes nothing
Patch(p) ==
    /\ node' = patch(node, p)
    /\ raised' = (STRICT_MODE /\ ~NodeValidates(node'))
    /\ applied' = <<p>>
    /\ previous' = applied
    /\ UNCHANGED <<STRICT_MODE, original>>
    /\ UNCHANGED <<configvars, replacevars, snapshotvars>>

NextPatch == \E p \in Patches : Patch(p)

SpecPatch == InitPatch /\ [][NextPatch]_vars

----------------------------------------------------------------------------
(* Claims about patch *)

\* The fields of a node that patch must leave alone
Untouched(n) ==
    <<n.name, n.unique_id, n.fqn, n.database, n.schema, n.alias,
      n.resource_type, n.config, n.tags, n.refs, n.sources, n.depends_on,
      n.build_path>>

\* C1: after any sequence of patch calls every field of the node other than
\* patch_path, description, columns and docrefs has the value the parser
\* gave it.
C1_PatchFrame == Untouched(node) = Untouched(original)

\* C1 witness: a patch has been applied and has changed the description
C1_Witness ==
    /\ applied # <<>>
    /\ node.description # original.description
    /\ applied[1].name # node.name

\* The four patched fields hold what the record p holds
HoldsPatch(n, p) ==
    /\ n.patch_path = p.original_file_path
    /\ n.description = p.description
    /\ n.columns = p.columns
    /\ n.docrefs = p.docrefs

\* C10: with strict mode off, after any non-empty sequence of patch calls
\* the four patched fields are those of the last patch record applied, and
\* applying the record that was applied last once more changes nothing.
C10_LastPatchWins ==
    /\ [](( ~STRICT_MODE /\ applied # <<>> ) => HoldsPatch(node, applied[1]))
    /\ [][( ~STRICT_MODE /\ applied # <<>> /\ applied' = applied )
            => node' = node]_vars

\* C10 witness: a second patch has replaced every field an earlier patch set
C10_Witness ==
    /\ ~STRICT_MODE
    /\ previous # <<>>
    /\ previous[1].description # applied[1].description
    /\ previous[1].original_file_path # applied[1].original_file_path
    /\ previous[1].columns # applied[1].columns
    /\ previous[1].docrefs # applied[1].docrefs
    /\ HoldsPatch(node, applied[1])

\* C5 as claimed: a patch that failed its strict-mode validation leaves a
\* node that validates.
C5_NoPartiallyValidNode == raised => NodeValidates(node)

----------------------------------------------------------------------------
(* Hook and the serialization NodeConfig inherits *)

\* Hook: sql has no default, transaction defaults to True, index to None
HookDefaults == [transaction |-> True, index |-> None]

\* Hook.from_dict: the keys the dict lacks take the dataclass defaults
Hook_from_dict(d) ==
    [sql |-> d.sql,
     transaction |-> IF "transaction" \in DOMAIN d
                     THEN d.transaction ELSE HookDefaults.transaction,
     index |-> IF "index" \in DOMAIN d THEN d.index ELSE HookDefaults.index]

\* Hook.to_dict: every field, a None left out under omit_none
Hook_to_dict(h, omit_none) ==
    [k \in {f \in {"sql", "transaction", "index"} : ~(omit_none /\ h[f] = None)}
        |-> h[k]]

\* The schema of Hook: sql required
HookValidates(d) ==
    /\ "sql" \in DOMAIN d /\ IsStr(d.sql)
    /\ ("transaction" \in DOMAIN d => IsBool(d.transaction))
    /\ ("index" \in DOMAIN d => d.index \in {None, IntVal})

\* The declared fields of NodeConfig; hologram skips _extra, whose name
\* starts with an underscore
NodeConfigFields ==
    {"enabled", "materialized", "persist_docs", "post_hook", "pre_hook",
     "vars", "quoting", "column_types", "tags"}

HookListFields == {"post_hook", "pre_hook"}

\* The fields whose value can be a scalar, hence None
ScalarFields == {"enabled", "materialized"}

\* NodeConfig.field_mapping: the key a field is serialized under
field_mapping(f) ==
    CASE f = "post_hook" -> "post-hook"
      [] f = "pre_hook" -> "pre-hook"
      [] OTHER -> f

\* The schema of one declared field
FieldValidates(f, v) ==
    CASE f = "enabled" -> IsBool(v)
      [] f = "materialized" -> IsStr(v)
      [] f \in HookListFields -> \A i \in 1..Len(v) : HookValidates(v[i])
      [] f = "tags" -> IF "list" \in DOMAIN v THEN IsStrList(v.list)
                       ELSE IsStr(v.str)
      [] OTHER -> TRUE

\* cls.validate(data): each declared key that is present has the shape of
\* its field; no key is required and any other key is allowed
Validates(data) ==
    \A f \in NodeConfigFields :
        field_mapping(f) \in DOMAIN data
            => FieldValidates(f, data[field_mapping(f)])

decode_field(f, v) ==
    IF f \in HookListFields THEN [i \in 1..Len(v) |-> Hook_from_dict(v[i])]
    ELSE v

encode_field(f, v, omit_none) ==
    IF f \in HookListFields
    THEN [i \in 1..Len(v) |-> Hook_to_dict(v[i], omit_none)]
    ELSE v

\* JsonSchemaMixin.from_dict: each declared field from its key, or its
\* default when the key is absent; _extra is not a field it sets
JsonSchemaMixin_from_dict(data) ==
    [f \in NodeConfigFields \cup {"_extra"} |->
        IF f = "_extra" THEN EmptyDict
        ELSE IF field_mapping(f) \in DOMAIN data
             THEN decode_field(f, data[field_mapping(f)])
             ELSE NodeConfig[f]]

\* JsonSchemaMixin.to_dict: each declared field under its key, a None left
\* out under omit_none
JsonSchemaMixin_to_dict(self, omit_none) ==
    LET kept == {f \in NodeConfigFields :
                    ~(omit_none /\ f \in ScalarFields /\ self[f] = None)}
    IN  [k \in {field_mapping(f) : f \in kept} |->
            LET f == CHOOSE g \in kept : field_mapping(g) = k
            IN  encode_field(f, self[f], omit_none)]

----------------------------------------------------------------------------
(* NodeConfig.to_dict, from_dict, replace *)

\* A faulty variant of to_dict that leaves the side-map out
to_dict_without_extra(self, omit_none) ==
    JsonSchemaMixin_to_dict(self, omit_none)

\* to_dict: data = super().to_dict(); data.update(self._extra)
to_dict(self, omit_none) ==
    self._extra @@ JsonSchemaMixin_to_dict(self, omit_none)

\* from_dict: the keys of data that the serialized record does not have go
\* to _extra
from_dict(data) ==
    LET self == JsonSchemaMixin_from_dict(data)
        keys == DOMAIN to_dict(self, FALSE)
    IN  [self EXCEPT !._extra = [key \in DOMAIN data \ keys |-> data[key]]]

----------------------------------------------------------------------------
(* SpecConfig: a raw config dict is parsed, serialized and parsed again *)

\* The most keys a raw config dict holds
MaxKeys == 2

\* Raw hook lists, as a project file gives them; the last lacks sql and
\* does not validate
RawHookLists ==
    { <<>>,
      <<[sql |-> "grant"]>>,
      <<[sql |-> "grant", transaction |-> False]>>,
      <<[sql |-> "grant", index |-> None]>>,
      <<[sql |-> "grant", index |-> IntVal], [sql |-> "vacuum"]>>,
      <<[transaction |-> True]>> }

\* The keys of a raw config dict: the nine declared ones and three that no
\* field is serialized under
RawKeys ==
    <<"enabled", "materialized", "persist_docs", "post-hook", "pre-hook",
      "vars", "quoting", "column_types", "tags", "custom_opt", "post_hook",
      "pre_hook">>

RawValues(k) ==
    CASE k = "enabled" -> {True, False, "yes"}
      [] k = "materialized" -> {"table", IntVal}
      [] k \in {"post-hook", "pre-hook"} -> RawHookLists
      [] k \in {"post_hook", "pre_hook"} -> {<<[sql |-> "analyze"]>>}
      [] k = "tags" ->
            {[list |-> <<"nightly">>], [str |-> "nightly"], [list |-> <<IntVal>>]}
      [] k = "custom_opt" -> {"x", None}
      [] OTHER -> {"relation" :> True}

\* The dicts over RawKeys[i..] with at most n keys
RECURSIVE RawDicts(_, _)
RawDicts(i, n) ==
    IF i > Len(RawKeys) \/ n = 0 THEN {EmptyDict}
    ELSE RawDicts(i + 1, n) \cup
         {(RawKeys[i] :> v) @@ m :
             v \in RawValues(RawKeys[i]), m \in RawDicts(i + 1, n - 1)}

RawConfigs == RawDicts(1, MaxKeys)

InitConfig ==
    /\ PatchIdle /\ ReplaceIdle /\ SnapshotIdle
    /\ raw \in RawConfigs
    /\ parsed = <<>> /\ serialized = <<>> /\ reparsed = <<>>
    /\ stage = "raw"

\* NodeConfig.from_dict(raw), validate=True: raises on a raw dict that does
\* not validate
FromDict ==
    /\ stage = "raw"
    /\ IF Validates(raw)
       THEN parsed' = <<from_dict(raw)>> /\ stage' = "parsed"
       ELSE parsed' = <<>> /\ stage' = "invalid"
    /\ UNCHANGED <<raw, serialized, reparsed>>
    /\ UNCHANGED <<patchvars, replacevars, snapshotvars>>

\* parsed.to_dict()
ToDict ==
    /\ stage = "parsed"
    /\ serialized' = <<to_dict(parsed[1], TRUE)>>
    /\ stage' = "serialized"
    /\ UNCHANGED <<raw, parsed, reparsed>>
    /\ UNCHANGED <<patchvars, replacevars, snapshotvars>>

\* NodeConfig.from_dict(serialized)
Reparse ==
    /\ stage = "serialized"
    /\ Validates(serialized[1])
    /\ reparsed' = <<from_dict(serialized[1])>>
    /\ stage' = "reparsed"
    /\ UNCHANGED <<raw, parsed, serialized>>
    /\ UNCHANGED <<patchvars, replacevars, snapshotvars>>

NextConfig == FromDict \/ ToDict \/ Reparse

SpecConfig == InitConfig /\ [][NextConfig]_vars

----------------------------------------------------------------------------
(* Claims about the round trip *)

\* Every key-value pair of m is a pair of d
Contains(d, m) == \A k \in DOMAIN m : k \in DOMAIN d /\ d[k] = m[k]

\* The serialized hook list l holds the hooks of the raw list m, each with
\* its entries other than a null one
ContainsHooks(l, m) ==
    /\ Len(l) = Len(m)
    /\ \A i \in 1..Len(m) :
          /\ \A k \in DOMAIN m[i] :
                m[i][k] # None => (k \in DOMAIN l[i] /\ l[i][k] = m[i][k])
          /\ DOMAIN l[i] \ DOMAIN m[i] \subseteq {"transaction"}
          /\ ("transaction" \notin DOMAIN m[i] => l[i].transaction = True)
          /\ ("index" \in DOMAIN l[i] => l[i].index # None)

\* C2 as claimed: the serialized dict contains every key-value pair of the
\* raw dict, and parsing the serialized dict gives the first record again.
C2_RoundTripContains ==
    /\ stage \in {"serialized", "reparsed"} => Contains(serialized[1], raw)
    /\ stage = "reparsed" => reparsed[1] = parsed[1]

\* C2 amended: the serialized dict has every key of the raw dict, with the
\* raw value, except that each hook of the pre-hook and post-hook lists is
\* written with an omitted transaction added as True and a null index left
\* out; the serialized dict validates, and parsing it gives the first
\* record again.
C2_RoundTrip ==
    /\ stage \in {"serialized", "reparsed"} =>
          /\ Validates(serialized[1])
          /\ \A k \in DOMAIN raw :
                /\ k \in DOMAIN serialized[1]
                /\ IF k \in {"post-hook", "pre-hook"}
                   THEN ContainsHooks(serialized[1][k], raw[k])
                   ELSE serialized[1][k] = raw[k]
    /\ stage = "reparsed" => reparsed[1] = parsed[1]

\* C2 witness: a raw dict with a key no field declares and a hook that
\* omits transaction has been parsed, serialized and parsed again
C2_Witness ==
    /\ stage = "reparsed"
    /\ "custom_opt" \in DOMAIN raw
    /\ "post-hook" \in DOMAIN raw
    /\ raw["post-hook"] = <<[sql |-> "grant"]>>
    /\ parsed[1]._extra = ("custom_opt" :> raw["custom_opt"])

----------------------------------------------------------------------------
(* SpecReplace: replace() and to_dict() on constructed records *)

\* A faulty variant of replace that appends an overriding hook list to the
\* record's own
replace_appending_hooks(self, kwargs) ==
    LET dct == to_dict(self, FALSE)
        merged == [k \in DOMAIN kwargs |->
                      IF k \in {"post-hook", "pre-hook"} /\ k \in DOMAIN dct
                      THEN dct[k] \o kwargs[k] ELSE kwargs[k]]
    IN  from_dict(merged @@ dct)

\* replace: dct = self.to_dict(omit_none=False); dct.update(kwargs);
\* from_dict(dct)
replace(self, kwargs) == from_dict(kwargs @@ to_dict(self, FALSE))

\* The most keyword arguments of one replace() call
MaxOverrides == 1

\* The most replace() calls in a row
MaxReplace == 1

\* The hook of a record, as a Hook object
HookObject(sql) == [sql |-> sql, transaction |-> True, index |-> None]

\* The side-maps of the constructed records: empty, an unknown key, and
\* keys that a declared field is serialized under as well
ExtraDicts ==
    { EmptyDict,
      "custom_opt" :> "x",
      "enabled" :> False,
      "pre-hook" :> <<[sql |-> "analyze"]>> }

\* NodeConfig(...): records as the dataclass constructor builds them
ConstructedConfigs ==
    {[NodeConfig EXCEPT !.pre_hook = pre, !.post_hook = post, !._extra = extra] :
        pre \in {<<>>, <<HookObject("grant")>>},
        post \in {<<>>, <<HookObject("vacuum")>>},
        extra \in ExtraDicts}

OverrideKeys ==
    <<"enabled", "materialized", "pre-hook", "post-hook", "pre_hook",
      "custom_opt", "tags">>

OverrideValues(k) ==
    CASE k = "enabled" -> {False}
      [] k = "materialized" -> {"table", "incremental", IntVal}
      [] k = "pre-hook" -> {<<>>, <<[sql |-> "analyze"]>>}
      [] k = "post-hook" -> {<<[sql |-> "commit", transaction |-> False]>>}
      [] k = "pre_hook" -> {<<[sql |-> "analyze"]>>}
      [] k = "custom_opt" -> {"y"}
      [] OTHER -> {[list |-> <<"nightly">>]}

\* The keyword dicts over OverrideKeys[i..] with at most n keys
RECURSIVE OverrideDicts(_, _)
OverrideDicts(i, n) ==
    IF i > Len(OverrideKeys) \/ n = 0 THEN {EmptyDict}
    ELSE OverrideDicts(i + 1, n) \cup
         {(OverrideKeys[i] :> v) @@ m :
             v \in OverrideValues(OverrideKeys[i]),
             m \in OverrideDicts(i + 1, n - 1)}

Overrides == OverrideDicts(1, MaxOverrides)

InitReplace ==
    /\ PatchIdle /\ ConfigIdle /\ SnapshotIdle
    /\ record \in ConstructedConfigs
    /\ receiver = <<>> /\ overrides = EmptyDict
    /\ failed = FALSE /\ dumped = <<>> /\ replaces = 0

\* record = record.replace(**kwargs); from_dict validates the merged dict
\* and raises when it does not validate
Replace(kwargs) ==
    /\ replaces < MaxReplace
    /\ receiver' = <<record>>
    /\ overrides' = kwargs
    /\ IF Validates(kwargs @@ to_dict(record, FALSE))
       THEN record' = replace(record, kwargs) /\ failed' = FALSE
       ELSE record' = record /\ failed' = TRUE
    /\ dumped' = <<>>
    /\ replaces' = replaces + 1
    /\ UNCHANGED <<patchvars, configvars, snapshotvars>>

\* record.to_dict(omit_none)
Dump(omit_none) ==
    /\ dumped = <<>>
    /\ dumped' = <<to_dict(record, omit_none)>>
    /\ UNCHANGED <<record, receiver, overrides, failed, replaces>>
    /\ UNCHANGED <<patchvars, configvars, snapshotvars>>

NextReplace ==
    \/ \E kwargs \in Overrides : Replace(kwargs)
    \/ \E omit_none \in BOOLEAN : Dump(omit_none)

SpecReplace == InitReplace /\ [][NextReplace]_vars

----------------------------------------------------------------------------
(* Claims about replace and the side-map *)

\* The keys the declared fields are serialized under
DeclaredKeys == {field_mapping(f) : f \in NodeConfigFields}

\* C7 as claimed: replace() with no overrides returns a record equal to the
\* record it was called on.
C7_ReplaceIdentity ==
    (receiver # <<>> /\ overrides = EmptyDict /\ ~failed)
        => record = receiver[1]

\* The side-map of r has no key that a declared field is serialized under
NoCollision(r) == DOMAIN r._extra \cap DeclaredKeys = {}

\* In support of C7: on a record without such a key, replace() with no
\* overrides does return an equal record.
ReplaceIdentityWithoutCollision ==
    (receiver # <<>> /\ overrides = EmptyDict /\ NoCollision(receiver[1]))
        => (~failed /\ record = receiver[1])

\* C8 as claimed: a key that is both a declared field's key and a key of
\* the side-map is serialized with the declared field's value.
C8_DeclaredFieldsWin ==
    dumped # <<>> =>
        \A f \in NodeConfigFields :
            field_mapping(f) \in DOMAIN record._extra
                => dumped[1][field_mapping(f)]
                      = JsonSchemaMixin_to_dict(record, FALSE)[field_mapping(f)]

\* C9 as claimed: a replace() overwrites the values of the keys it is
\* given, except the hook lists, where the record's own hooks are followed
\* by the overriding ones.
C9_HooksConcatenated ==
    (receiver # <<>> /\ ~failed) =>
        /\ ("pre-hook" \in DOMAIN overrides =>
                record.pre_hook = receiver[1].pre_hook
                    \o decode_field("pre_hook", overrides["pre-hook"]))
        /\ ("post-hook" \in DOMAIN overrides =>
                record.post_hook = receiver[1].post_hook
                    \o decode_field("post_hook", overrides["post-hook"]))

\* C9 amended: a replace() overwrites the value of every key it is given,
\* the hook lists included: the resulting pre_hook list is the overriding
\* "pre-hook" list alone and the resulting post_hook list the overriding
\* "post-hook" list alone.  A declared field whose key is not given keeps
\* the value the record is serialized with, so an override of one hook list
\* leaves the other alone, and a given key that no field is serialized
\* under is kept in the side-map.
C9_ReplaceOverwrites ==
    (receiver # <<>> /\ ~failed) =>
        LET before == to_dict(receiver[1], FALSE)
        IN  /\ \A f \in NodeConfigFields :
                  record[f] = decode_field(f,
                      IF field_mapping(f) \in DOMAIN overrides
                      THEN overrides[field_mapping(f)]
                      ELSE before[field_mapping(f)])
            /\ \A k \in DOMAIN overrides \ DeclaredKeys :
                  k \in DOMAIN record._extra /\ record._extra[k] = overrides[k]

\* C9 witness: a record with hooks of both kinds got a new pre-hook list
C9_Witness ==
    /\ receiver # <<>> /\ ~failed
    /\ receiver[1].pre_hook = <<HookObject("grant")>>
    /\ receiver[1].post_hook = <<HookObject("vacuum")>>
    /\ receiver[1]._extra = EmptyDict
    /\ overrides = ("pre-hook" :> <<[sql |-> "analyze"]>>)
    /\ record.pre_hook = <<HookObject("analyze")>>
    /\ record.post_hook = <<HookObject("vacuum")>>

----------------------------------------------------------------------------
(* The snapshot config variants and their schemas *)

\* The schema of a dataclass: its name, the fields without a default, and
\* the type of each field it adds to NodeConfig
Schema(title, required, properties) ==
    [title |-> title, required |-> required, properties |-> properties]

\* _SnapshotConfig: unique_key and target_schema have no default
SnapshotRequired == {"unique_key", "target_schema"}

SnapshotProperties ==
    [unique_key |-> "str", target_schema |-> "str",
     target_database |-> "Optional[str]"]

\* GenericSnapshotConfig: strategy: str
GenericSnapshotConfig ==
    Schema("GenericSnapshotConfig",
           SnapshotRequired \cup {"strategy"},
           [strategy |-> "str"] @@ SnapshotProperties)

\* TimestampSnapshotConfig: strategy: TimestampStrategy, updated_at: str
TimestampSnapshotConfig ==
    Schema("TimestampSnapshotConfig",
           SnapshotRequired \cup {"strategy", "updated_at"},
           [strategy |-> "TimestampStrategy", updated_at |-> "str"]
               @@ SnapshotProperties)

\* A faulty variant of CheckSnapshotConfig whose check_cols is not required
CheckSnapshotConfig_cols_defaulted ==
    Schema("CheckSnapshotConfig",
           SnapshotRequired \cup {"strategy"},
           [strategy |-> "CheckStrategy",
            check_cols |-> "Union[All, List[str]]"] @@ SnapshotProperties)

\* CheckSnapshotConfig: strategy: CheckStrategy,
\* check_cols: Union[All, List[str]]
CheckSnapshotConfig ==
    Schema("CheckSnapshotConfig",
           SnapshotRequired \cup {"strategy", "check_cols"},
           [strategy |-> "CheckStrategy",
            check_cols |-> "Union[All, List[str]]"] @@ SnapshotProperties)

\* A value has the type a field is annotated with
HasType(type, v) ==
    CASE type = "str" -> IsStr(v)
      [] type = "Optional[str]" -> v = None \/ IsStr(v)
      [] type = "TimestampStrategy" -> v = "timestamp"
      [] type = "CheckStrategy" -> v = "check"
      [] type = "Union[All, List[str]]" ->
            IF "list" \in DOMAIN v THEN IsStrList(v.list)
            ELSE v.str = "all"

\* A dict validates against the schema of a snapshot config dataclass: the
\* required keys are there, each declared key has its type, the NodeConfig
\* fields validate, any other key is allowed
DataclassValidates(schema, d) ==
    /\ schema.required \subseteq DOMAIN d
    /\ \A k \in DOMAIN schema.properties \cap DOMAIN d :
          HasType(schema.properties[k], d[k])
    /\ Validates(d)

\* The "if" of a conditional schema: a properties keyword constrains a key
\* only when the key is present
IfMatches(cond, d) ==
    \A k \in DOMAIN cond.properties :
        k \in DOMAIN d =>
            \E i \in 1..Len(cond.properties[k].enum) :
                d[k] = cond.properties[k].enum[i]

\* The dataclass schemas a schema applies to a dict: through if/then/else,
\* and directly where the schema itself carries a dataclass schema
RECURSIVE Applies(_, _)
Applies(schema, d) ==
    (IF "title" \in DOMAIN schema THEN {schema.title} ELSE {})
    \cup
    (IF "if" \in DOMAIN schema
     THEN IF IfMatches(schema.if, d) THEN Applies(schema.then, d)
          ELSE Applies(schema.else, d)
     ELSE {})

\* jsonschema validation of a dict against a schema
RECURSIVE SchemaValidates(_, _)
SchemaValidates(schema, d) ==
    /\ "title" \in DOMAIN schema => DataclassValidates(schema, d)
    /\ "if" \in DOMAIN schema =>
          IF IfMatches(schema.if, d) THEN SchemaValidates(schema.then, d)
          ELSE SchemaValidates(schema.else, d)

----------------------------------------------------------------------------
(* _create_if_else_chain and ParsedSnapshotNode.json_schema *)

\* The "if" clause the loop writes for one tag
IfClause(key, if_clause) == [properties |-> (key :> [enum |-> <<if_clause>>])]

\* A faulty variant of _create_if_else_chain that takes the criteria from the
\* front of the list
RECURSIVE _create_if_else_chain_from_front(_, _, _)
_create_if_else_chain_from_front(key, crit, default) ==
    IF crit = <<>> THEN default
    ELSE [if |-> IfClause(key, Head(crit)[1]),
          then |-> Head(crit)[2],
          else |-> _create_if_else_chain_from_front(key, Tail(crit), default)]

\* A faulty variant of _create_if_else_chain that never steps into the "else" it
\* has written: every pair overwrites the same if/then/else, and the default
\* schema is merged into that same, outermost schema
_create_if_else_chain_flat(key, crit, default) ==
    IF crit = <<>> THEN default
    ELSE [if |-> IfClause(key, Head(crit)[1]),
          then |-> Head(crit)[2],
          else |-> EmptyDict] @@ default

\* _create_if_else_chain: criteria.pop() takes the pairs from the end of
\* the list; each writes if/then/else into the current schema and the
\* current schema becomes that else; the default schema is merged into the
\* innermost else
RECURSIVE _create_if_else_chain(_, _, _)
_create_if_else_chain(key, crit, default) ==
    IF crit = <<>> THEN default
    ELSE LET popped == crit[Len(crit)]
         IN  [if |-> IfClause(key, popped[1]),
              then |-> popped[2],
              else |-> _create_if_else_chain(
                          key, SubSeq(crit, 1, Len(crit) - 1), default)]

\* The configs list of ParsedSnapshotNode.json_schema
configs ==
    << <<"check", CheckSnapshotConfig>>,
       <<"timestamp", TimestampSnapshotConfig>> >>

\* dest['config'] of ParsedSnapshotNode.json_schema
json_schema == _create_if_else_chain("strategy", configs, GenericSnapshotConfig)

----------------------------------------------------------------------------
(* SpecSnapshot: a chain is built and a snapshot config validated *)

\* The most pairs of a criteria list
MaxCriteria == 2

\* The pairs a criteria list is made of; two of them share a tag
CriteriaPairs ==
    { <<"check", CheckSnapshotConfig>>,
      <<"timestamp", TimestampSnapshotConfig>>,
      <<"timestamp", CheckSnapshotConfig>> }

RECURSIVE CriteriaOfLen(_)
CriteriaOfLen(n) ==
    IF n = 0 THEN {<<>>}
    ELSE {Append(c, pair) : c \in CriteriaOfLen(n - 1), pair \in CriteriaPairs}

CriteriaLists == UNION {CriteriaOfLen(n) : n \in 0..MaxCriteria}

SnapshotKeys ==
    <<"strategy", "check_cols", "updated_at", "unique_key", "target_schema">>

SnapshotValues(k) ==
    CASE k = "strategy" ->
            {"check", "timestamp", "custom", "Check", "TIMESTAMP", IntVal}
      [] k = "check_cols" ->
            {[str |-> "all"], [list |-> <<"id">>], [str |-> "id"],
             [list |-> <<IntVal>>]}
      [] k = "updated_at" -> {"updated_at_col", IntVal}
      [] k = "unique_key" -> {"id"}
      [] OTHER -> {"snapshots", IntVal}

\* The snapshot config dicts over SnapshotKeys[i..]
RECURSIVE SnapshotDicts(_)
SnapshotDicts(i) ==
    IF i > Len(SnapshotKeys) THEN {EmptyDict}
    ELSE SnapshotDicts(i + 1) \cup
         {(SnapshotKeys[i] :> v) @@ m :
             v \in SnapshotValues(SnapshotKeys[i]), m \in SnapshotDicts(i + 1)}

SnapshotConfigs == SnapshotDicts(1)

InitSnapshot ==
    /\ PatchIdle /\ ConfigIdle /\ ReplaceIdle
    /\ criteria = <<>> /\ chain = <<>> /\ instance = EmptyDict
    /\ selected = {} /\ accepted = FALSE /\ phase = "start"

\* ParsedSnapshotNode.json_schema()
JsonSchema ==
    /\ phase = "start"
    /\ criteria' = configs
    /\ chain' = <<json_schema>>
    /\ phase' = "schema"
    /\ UNCHANGED <<instance, selected, accepted>>
    /\ UNCHANGED <<patchvars, configvars, replacevars>>

\* _create_if_else_chain('strategy', crit, GenericSnapshotConfig)
CreateChain(crit) ==
    /\ phase = "start"
    /\ criteria' = crit
    /\ chain' = <<_create_if_else_chain("strategy", crit, GenericSnapshotConfig)>>
    /\ phase' = "schema"
    /\ UNCHANGED <<instance, selected, accepted>>
    /\ UNCHANGED <<patchvars, configvars, replacevars>>

\* The config dict d is validated against the chain
ValidateConfig(d) ==
    /\ phase = "schema"
    /\ instance' = d
    /\ selected' = Applies(chain[1], d)
    /\ accepted' = SchemaValidates(chain[1], d)
    /\ phase' = "validated"
    /\ UNCHANGED <<criteria, chain>>
    /\ UNCHANGED <<patchvars, configvars, replacevars>>

NextSnapshot ==
    \/ JsonSchema
    \/ \E crit \in CriteriaLists : CreateChain(crit)
    \/ \E d \in SnapshotConfigs : ValidateConfig(d)

SpecSnapshot == InitSnapshot /\ [][NextSnapshot]_vars

----------------------------------------------------------------------------
(* Claims about the snapshot config schema *)

\* The instance carries a strategy that is a string
HasStrategy == "strategy" \in DOMAIN instance /\ IsStr(instance.strategy)

\* C3: against the schema json_schema generates, a config whose strategy is
\* the string s has exactly one variant applied to it: check when s is
\* "check", timestamp when s is "timestamp", generic for any other s.
C3_VariantTotality ==
    (phase = "validated" /\ criteria = configs /\ HasStrategy) =>
        selected = { CASE instance.strategy = "check" -> "CheckSnapshotConfig"
                       [] instance.strategy = "timestamp"
                            -> "TimestampSnapshotConfig"
                       [] OTHER -> "GenericSnapshotConfig" }

\* C3 witness: each of the three variants has been selected, here the
\* generic one for a strategy that differs from "check" by case only
C3_Witness ==
    /\ phase = "validated" /\ criteria = configs
    /\ HasStrategy /\ instance.strategy = "Check"
    /\ selected = {"GenericSnapshotConfig"}

\* The schema n "else" steps into schema
RECURSIVE Nested(_, _)
Nested(schema, n) == IF n = 0 THEN schema ELSE Nested(schema.else, n - 1)

\* Level i of the chain tests the tag of pair j of the criteria and applies
\* that pair's schema
LevelIsPair(i, j) ==
    LET level == Nested(chain[1], i - 1)
    IN  /\ DOMAIN level = {"if", "then", "else"}
        /\ level.if = IfClause("strategy", criteria[j][1])
        /\ level.then = criteria[j][2]

\* C4 as claimed: the chain is nested in the order of the list: the
\* outermost "if" tests the first pair's tag, each "else" the next pair's,
\* and the innermost "else" is the default schema.
C4_ChainInListOrder ==
    chain # <<>> =>
        /\ \A i \in 1..Len(criteria) : LevelIsPair(i, i)
        /\ Nested(chain[1], Len(criteria)) = GenericSnapshotConfig

\* The pair of the criteria that decides for strategy s: the last one
\* with that tag
LastPairFor(s) ==
    LET hits == {j \in 1..Len(criteria) : criteria[j][1] = s}
    IN  IF hits = {} THEN 0 ELSE CHOOSE j \in hits : \A h \in hits : h <= j

\* C4 amended: the chain is nested in the reverse order of the list: the
\* outermost "if" tests the last pair's tag, each "else" the pair before,
\* and the innermost "else" is the default schema.  For the snapshot config
\* the tags are tested in the order timestamp, then check, then generic, and
\* of the pairs whose tag matches, the last one of the list wins.
C4_ChainInReverseOrder ==
    /\ chain # <<>> =>
          /\ \A i \in 1..Len(criteria) :
                LevelIsPair(i, Len(criteria) - i + 1)
          /\ Nested(chain[1], Len(criteria)) = GenericSnapshotConfig
    /\ (phase = "validated" /\ HasStrategy) =>
          selected = { IF LastPairFor(instance.strategy) = 0
                       THEN "GenericSnapshotConfig"
                       ELSE criteria[LastPairFor(instance.strategy)][2].title }

\* C4 witness: the chain of the snapshot config tests timestamp outermost,
\* and a check config has been resolved through it
C4_Witness ==
    /\ phase = "validated" /\ criteria = configs
    /\ chain[1].if = IfClause("strategy", "timestamp")
    /\ chain[1].else.if = IfClause("strategy", "check")
    /\ HasStrategy /\ instance.strategy = "check"
    /\ selected = {"CheckSnapshotConfig"}

\* The instance carries the fields every snapshot config has
HasCommonFields ==
    /\ {"unique_key", "target_schema"} \subseteq DOMAIN instance
    /\ IsStr(instance.unique_key) /\ IsStr(instance.target_schema)

\* check_cols is "all" or a list of strings
CheckColsWellShaped ==
    /\ "check_cols" \in DOMAIN instance
    /\ IF "list" \in DOMAIN instance.check_cols
       THEN IsStrList(instance.check_cols.list)
       ELSE instance.check_cols.str = "all"

\* C6: a snapshot config that carries the common snapshot fields is
\* accepted exactly when the field its variant adds is present and
\* well-shaped: check_cols for "check", updated_at for "timestamp", nothing
\* for any other strategy.
C6_VariantRequiredField ==
    (phase = "validated" /\ criteria = configs /\ HasStrategy
        /\ HasCommonFields) =>
        (accepted <=>
            CASE instance.strategy = "check" -> CheckColsWellShaped
              [] instance.strategy = "timestamp" ->
                    "updated_at" \in DOMAIN instance
                        /\ IsStr(instance.updated_at)
              [] OTHER -> TRUE)

\* C6 witness: a check config without check_cols has been rejected
C6_Witness ==
    /\ phase = "validated" /\ criteria = configs
    /\ HasStrategy /\ instance.strategy = "check" /\ HasCommonFields
    /\ "check_cols" \notin DOMAIN instance
    /\ ~accepted

====
